---- MODULE Spec2Model ----
(***************************************************************************)
(* A model of the pull-request review pipeline:                            *)
(*   - apply_penalty, extract_added_code, count_todos, detect_secrets,     *)
(*     uses_print_for_logging, python_complexity_from_code,                *)
(*     missing_docstrings, run_pyflakes_on_code and analyze_pr             *)
(*     (src/analyzer.py);                                                  *)
(*   - parse_local_diff (src/pr_fetcher.py).                               *)
(* Text is modelled as a sequence of one-character strings, so that        *)
(* str.splitlines, str.join, str.startswith, str.endswith, str.strip and   *)
(* the "in" substring test are computed the way Python computes them.      *)
(***************************************************************************)
EXTENDS Integers, Sequences, FiniteSets, TLC

VARIABLES
    \* ---- apply_penalty called on its own
    ap_type, ap_count, ap_result, ap_pc,
    \* ---- extract_added_code called on its own
    ex_src, ex_patch, ex_result, ex_pc,
    \* ---- parse_local_diff
    diff_src, diff_text, lines, pos, files, current_patch_lines, filename,
    collecting, score, ppc,
    \* ---- analyze_pr
    pr_data, idx, file_res, results, score_penalty, final_score, pyflakes_msgs,
    tmpfiles, pc,
    \* ---- history of analyze_pr: penalties applied, what each check saw
    applied, cur_obs, obs

penaltyVars == <<ap_type, ap_count, ap_result, ap_pc>>
extractVars == <<ex_src, ex_patch, ex_result, ex_pc>>
parseVars   == <<diff_src, diff_text, lines, pos, files, current_patch_lines,
                 filename, collecting, score, ppc>>
analyzeVars == <<pr_data, idx, file_res, results, score_penalty, final_score,
                 pyflakes_msgs, tmpfiles, pc, applied, cur_obs, obs>>
vars == <<penaltyVars, extractVars, parseVars, analyzeVars>>

(***************************************************************************)
(* Bounds of the model.                                                    *)
(***************************************************************************)
MaxCount == 12       \* largest occurrence count handed to apply_penalty
MaxPatchLines == 3   \* lines of a patch handed to extract_added_code
MaxDiffLines == 3    \* lines of a diff handed to parse_local_diff
MaxFiles == 2        \* files of a pull request handed to analyze_pr

(***************************************************************************)
(* Python's built-ins on text.                                             *)
(***************************************************************************)
Min(a, b) == IF a <= b THEN a ELSE b
Max(a, b) == IF a >= b THEN a ELSE b

\* s.startswith(p)
StartsWith(s, p) == Len(s) >= Len(p) /\ SubSeq(s, 1, Len(p)) = p

\* s.endswith(p)
EndsWith(s, p) ==
    Len(s) >= Len(p) /\ SubSeq(s, Len(s) - Len(p) + 1, Len(s)) = p

\* p in s
Contains(s, p) ==
    \E i \in 1..(Len(s) - Len(p) + 1) : SubSeq(s, i, i + Len(p) - 1) = p

\* the characters str.strip() removes (those of the model's alphabet)
Whitespace == {" ", "\t", "\n", "\r", "\f"}

\* s.strip()
Strip(s) ==
    LET keep == {i \in 1..Len(s) : s[i] \notin Whitespace}
    IN  IF keep = {} THEN <<>>
        ELSE LET lo == CHOOSE i \in keep : \A j \in keep : i <= j
                 hi == CHOOSE i \in keep : \A j \in keep : i >= j
             IN  SubSeq(s, lo, hi)

\* "\n".join(ls)
RECURSIVE Join(_)
Join(ls) ==
    IF ls = <<>> THEN <<>>
    ELSE IF Len(ls) = 1 THEN ls[1]
    ELSE ls[1] \o <<"\n">> \o Join(Tail(ls))

\* the line boundaries of str.splitlines() (those of the model's alphabet)
LineBreaks == {"\n", "\r", "\f"}

\* text.splitlines(): a line ends at a line boundary, "\r\n" counting as one;
\* the boundaries are dropped and one at the very end opens no further line.
SplitLines(text) ==
    LET n == Len(text)
        ends == {i \in 1..n :
                    /\ text[i] \in LineBreaks
                    /\ ~(text[i] = "\r" /\ i < n /\ text[i + 1] = "\n")}
        first(e) == IF text[e] = "\n" /\ e > 1 /\ text[e - 1] = "\r"
                    THEN e - 1 ELSE e
        kth(k) == CHOOSE e \in ends : Cardinality({j \in ends : j <= e}) = k
        m == Cardinality(ends)
        from(k) == IF k = 1 THEN 1 ELSE kth(k - 1) + 1
        last == IF m = 0 THEN 0 ELSE kth(m)
        full == [k \in 1..m |-> SubSeq(text, from(k), first(kth(k)) - 1)]
    IN  IF last < n THEN Append(full, SubSeq(text, last + 1, n)) ELSE full

RECURSIVE SumSeq(_)
SumSeq(s) == IF s = <<>> THEN 0 ELSE Head(s) + SumSeq(Tail(s))

\* the sequences over S of length at most n
SeqUpTo(S, n) == UNION {[1..k -> S] : k \in 0..n}

(***************************************************************************)
(* Penalty configuration, src/analyzer.py lines 30-42.                     *)
(***************************************************************************)
PENALTY_TODO == 5
PENALTY_COMPLEXITY == 2
PENALTY_DOCSTRING == 1
PENALTY_PRINT == 3
PENALTY_PYFLAKES == 1

MAX_PENALTY_PER_ISSUE ==
    [todo |-> 20, complexity |-> 20, docstring |-> 5, pyflakes |-> 10,
     secret |-> 25, large_addition |-> 5]

\* MAX_PENALTY_PER_ISSUE.get(key, default)
MaxPenaltyGet(key, default) ==
    IF key \in DOMAIN MAX_PENALTY_PER_ISSUE
    THEN MAX_PENALTY_PER_ISSUE[key] ELSE default

\* the dictionary of factors built inside apply_penalty, and its .get(type, 0)
PenaltyFactor(issue_type) ==
    CASE issue_type = "todo" -> PENALTY_TODO
      [] issue_type = "complexity" -> PENALTY_COMPLEXITY
      [] issue_type = "docstring" -> PENALTY_DOCSTRING
      [] issue_type = "pyflakes" -> PENALTY_PYFLAKES
      [] issue_type = "print" -> PENALTY_PRINT
      [] issue_type = "secret" -> MaxPenaltyGet("secret", 25)
      [] issue_type = "large_addition" -> MaxPenaltyGet("large_addition", 5)
      [] OTHER -> 0

\* a plausible slip: the product is returned without the cap
apply_penalty_uncapped(issue_type, count) == PenaltyFactor(issue_type) * count

apply_penalty(issue_type, count) ==
    Min(PenaltyFactor(issue_type) * count,
        MaxPenaltyGet(issue_type, PenaltyFactor(issue_type)))

IssueTypes ==
    {"todo", "complexity", "docstring", "print", "pyflakes", "secret",
     "large_addition"}

\* the types apply_penalty is called with here: the seven it knows and one it
\* does not
PenaltyInputs == IssueTypes \cup {"style"}

(***************************************************************************)
(* apply_penalty on its own: a type and a count are drawn, then the        *)
(* function is applied.                                                    *)
(***************************************************************************)
PenaltyIdle ==
    /\ ap_type = "todo" /\ ap_count = 0 /\ ap_result = 0 /\ ap_pc = "idle"
ExtractIdle ==
    /\ ex_src = <<>> /\ ex_patch = <<>> /\ ex_result = <<>> /\ ex_pc = "idle"
ParseIdle ==
    /\ diff_src = <<>> /\ diff_text = <<>> /\ lines = <<>> /\ pos = 0
    /\ files = <<>> /\ current_patch_lines = <<>> /\ filename = <<>>
    /\ collecting = FALSE /\ score = 0 /\ ppc = "idle"

PenaltyInit ==
    /\ ap_type \in PenaltyInputs
    /\ ap_count \in 0..MaxCount
    /\ ap_result = 0
    /\ ap_pc = "call"

ApplyPenalty ==
    /\ ap_pc = "call"
    /\ ap_result' = apply_penalty(ap_type, ap_count)
    /\ ap_pc' = "done"
    /\ UNCHANGED <<ap_type, ap_count, extractVars, parseVars, analyzeVars>>

(***************************************************************************)
(* extract_added_code, src/analyzer.py lines 50-57.                        *)
(***************************************************************************)
extract_added_code(patch_text) ==
    LET ls == SplitLines(patch_text)
        added == SelectSeq(ls, LAMBDA l :
                     StartsWith(l, <<"+">>) /\ ~StartsWith(l, <<"+", "+", "+">>))
    IN  Join([k \in 1..Len(added) |-> SubSeq(added[k], 2, Len(added[k]))])

\* The lines a patch is made of here. kind says what the line is in the diff
\* it was cut from; text is what the program reads.
PatchPool ==
    { [kind |-> "added",   text |-> <<"+", "x">>],
      [kind |-> "added",   text |-> <<"+">>],
      [kind |-> "added",   text |-> <<"+", "+", "+", "i", ";">>],
      [kind |-> "removed", text |-> <<"-", "y">>],
      [kind |-> "hunk",    text |-> <<"@", "@", " ", "-", "1", " ", "+", "1", " ", "@", "@">>],
      [kind |-> "context", text |-> <<" ", "c">>],
      [kind |-> "header",  text |-> <<"+", "+", "+", " ", "/", "d", "e", "v", "/", "n", "u", "l", "l">>] }

TextOf(src) == Join([k \in 1..Len(src) |-> src[k].text])

ExtractInit ==
    /\ ex_src \in SeqUpTo(PatchPool, MaxPatchLines)
    /\ ex_patch = TextOf(ex_src)
    /\ ex_result = <<>>
    /\ ex_pc = "call"

ExtractAddedCode ==
    /\ ex_pc = "call"
    /\ ex_result' = extract_added_code(ex_patch)
    /\ ex_pc' = "done"
    /\ UNCHANGED <<ex_src, ex_patch, penaltyVars, parseVars, analyzeVars>>

(***************************************************************************)
(* parse_local_diff, src/pr_fetcher.py lines 82-145.                       *)
(***************************************************************************)
NewFileMarker == <<"+", "+", "+", " ", "b", "/">>

\* the dictionary appended to files, lines 94-107 and 118-131
FileChange(fname, patch_lines) ==
    [filename |-> fname,
     patch |-> Join(patch_lines),
     additions |-> Len(SelectSeq(patch_lines, LAMBDA l :
                       StartsWith(l, <<"+">>) /\ ~StartsWith(l, <<"+", "+", "+">>))),
     deletions |-> Len(SelectSeq(patch_lines, LAMBDA l :
                       StartsWith(l, <<"-">>) /\ ~StartsWith(l, <<"-", "-", "-">>)))]

\* "if collecting and filename: files.append(...)"; an empty filename is false
Flush(fs, coll, fname, patch_lines) ==
    IF coll /\ fname # <<>> THEN Append(fs, FileChange(fname, patch_lines))
    ELSE fs

\* lines 134-136
DiffScore(fs) ==
    Max(0, 100 - (SumSeq([k \in 1..Len(fs) |-> fs[k].additions])
                  + SumSeq([k \in 1..Len(fs) |-> fs[k].deletions])))

DiffPool ==
    { [kind |-> "marker",  text |-> <<"+", "+", "+", " ", "b", "/", "a", ".", "p", "y">>],
      [kind |-> "marker",  text |-> <<"+", "+", "+", " ", "b", "/", "n", " ", "m", "\t">>],
      [kind |-> "marker",  text |-> <<"+", "+", "+", " ", "b", "/">>],
      [kind |-> "header",  text |-> <<"-", "-", "-", " ", "a", "/", "n", " ", "m">>],
      [kind |-> "added",   text |-> <<"+", "x">>],
      [kind |-> "added",   text |-> <<"+", "+", "+", "i", ";">>],
      [kind |-> "removed", text |-> <<"-", "y">>],
      [kind |-> "removed", text |-> <<"-", "-", "-", " ", "c">>],
      [kind |-> "hunk",    text |-> <<"@", "@", " ", "-", "1", " ", "+", "1", " ", "@", "@">>],
      [kind |-> "context", text |-> <<" ", "c">>],
      [kind |-> "context", text |-> <<>>] }

ParseInit ==
    /\ diff_src \in SeqUpTo(DiffPool, MaxDiffLines)
    /\ diff_text = TextOf(diff_src)
    /\ lines = <<>> /\ pos = 0
    /\ files = <<>>
    /\ current_patch_lines = <<>>
    /\ filename = <<>>          \* None: read only behind "and filename"
    /\ collecting = FALSE
    /\ score = 0
    /\ ppc = "start"

\* line 89: diff_text.splitlines()
ParseBegin ==
    /\ ppc = "start"
    /\ lines' = SplitLines(diff_text)
    /\ pos' = 1
    /\ ppc' = "scan"
    /\ UNCHANGED <<diff_src, diff_text, files, current_patch_lines, filename,
                   collecting, score, penaltyVars, extractVars, analyzeVars>>

\* lines 90-111: a new-file marker flushes the open section and opens a new one
ParseMarker ==
    /\ ppc = "scan" /\ pos <= Len(lines)
    /\ StartsWith(lines[pos], NewFileMarker)
    /\ files' = Flush(files, collecting, filename, current_patch_lines)
    /\ filename' = Strip(SubSeq(lines[pos], Len(NewFileMarker) + 1,
                                Len(lines[pos])))
    /\ current_patch_lines' = <<>>
    /\ collecting' = TRUE
    /\ pos' = pos + 1
    /\ UNCHANGED <<diff_src, diff_text, lines, score, ppc, penaltyVars,
                   extractVars, analyzeVars>>

\* lines 112-113
ParseCollect ==
    /\ ppc = "scan" /\ pos <= Len(lines)
    /\ ~StartsWith(lines[pos], NewFileMarker)
    /\ collecting
    /\ current_patch_lines' = Append(current_patch_lines, lines[pos])
    /\ pos' = pos + 1
    /\ UNCHANGED <<diff_src, diff_text, lines, files, filename, collecting,
                   score, ppc, penaltyVars, extractVars, analyzeVars>>

\* a line before the first marker is passed over
ParseSkip ==
    /\ ppc = "scan" /\ pos <= Len(lines)
    /\ ~StartsWith(lines[pos], NewFileMarker)
    /\ ~collecting
    /\ pos' = pos + 1
    /\ UNCHANGED <<diff_src, diff_text, lines, files, current_patch_lines,
                   filename, collecting, score, ppc, penaltyVars, extractVars,
                   analyzeVars>>

\* a plausible slip: the section open at the end of input is not flushed
ParseFinish_NoFlush ==
    /\ ppc = "scan" /\ pos > Len(lines)
    /\ score' = DiffScore(files)
    /\ ppc' = "done"
    /\ UNCHANGED <<diff_src, diff_text, lines, pos, files, current_patch_lines,
                   filename, collecting, penaltyVars, extractVars, analyzeVars>>

\* lines 115-145: flush the last section, total the counts, return
ParseFinish ==
    /\ ppc = "scan" /\ pos > Len(lines)
    /\ files' = Flush(files, collecting, filename, current_patch_lines)
    /\ score' = DiffScore(files')
    /\ ppc' = "done"
    /\ UNCHANGED <<diff_src, diff_text, lines, pos, current_patch_lines,
                   filename, collecting, penaltyVars, extractVars, analyzeVars>>

(***************************************************************************)
(* The checks of src/analyzer.py.                                          *)
(***************************************************************************)
SECRET_KEYWORDS == << <<"P", "R", "I", "V", "A", "T", "E", "_", "K", "E", "Y">>, <<"A", "P", "I", "_", "K", "E", "Y">>, <<"S", "E", "C", "R", "E", "T">>, <<"T", "O", "K", "E", "N">> >>

\* line 62: lines of the whole patch that hold TODO or FIXME
count_todos(patch_text) ==
    Len(SelectSeq(SplitLines(patch_text), LAMBDA l :
            Contains(l, <<"T", "O", "D", "O">>) \/ Contains(l, <<"F", "I", "X", "M", "E">>)))

\* the characters the regular expression class \w matches
WordChars ==
    {"a", "b", "c", "d", "e", "f", "g", "h", "i", "j", "k", "l", "m", "n", "o",
     "p", "q", "r", "s", "t", "u", "v", "w", "x", "y", "z",
     "A", "B", "C", "D", "E", "F", "G", "H", "I", "J", "K", "L", "M", "N", "O",
     "P", "Q", "R", "S", "T", "U", "V", "W", "X", "Y", "Z",
     "0", "1", "2", "3", "4", "5", "6", "7", "8", "9", "_"}

\* line 88: re.search(r"\bprint\s*\(", code_text)
uses_print_for_logging(code_text) ==
    \E i \in 1..(Len(code_text) - 5) :
        /\ SubSeq(code_text, i, i + 4) = <<"p", "r", "i", "n", "t">>
        /\ (i = 1 \/ code_text[i - 1] \notin WordChars)
        /\ \E j \in (i + 5)..Len(code_text) :
              /\ code_text[j] = "("
              /\ \A k \in (i + 5)..(j - 1) : code_text[k] \in Whitespace

\* line 132
detect_secrets(code_text) ==
    SelectSeq(SECRET_KEYWORDS, LAMBDA k : Contains(code_text, k))

TOTAL_SCORE == 100
LARGE_ADDITION_CHARS == 2000
HIGH_COMPLEXITY == 10
AVG_COMPLEXITY_LIMIT == 6

NoValue == [kind |-> "none"]

\* lines 65-83. visit is what radon's cc_visit does on the fragment: it raises,
\* or it returns the blocks it found, each with a name and a complexity.
\* a plausible slip: the failure of cc_visit is not caught
python_complexity_from_code_unguarded(visit) ==
    IF visit.raised THEN [kind |-> "raise"]
    ELSE IF visit.blocks = <<>> THEN NoValue
    ELSE [kind |-> "value",
          avg_sum |-> SumSeq([k \in 1..Len(visit.blocks) |->
                                 visit.blocks[k].complexity]),
          avg_len |-> Len(visit.blocks),
          high_count |-> Len(SelectSeq(visit.blocks,
                                LAMBDA b : b.complexity >= HIGH_COMPLEXITY)),
          details |-> visit.blocks]

\* avg is the quotient avg_sum / avg_len
python_complexity_from_code(visit) ==
    IF visit.raised THEN NoValue
    ELSE IF visit.blocks = <<>> THEN NoValue
    ELSE [kind |-> "value",
          avg_sum |-> SumSeq([k \in 1..Len(visit.blocks) |->
                                 visit.blocks[k].complexity]),
          avg_len |-> Len(visit.blocks),
          high_count |-> Len(SelectSeq(visit.blocks,
                                LAMBDA b : b.complexity >= HIGH_COMPLEXITY)),
          details |-> visit.blocks]

\* lines 91-103. parse is what ast.parse does on the fragment: it raises, or
\* it returns a tree; defs lists, for each function or class definition the
\* walk meets, whether it has a docstring.
missing_docstrings(parse) ==
    IF parse.raised THEN NoValue
    ELSE [kind |-> "int",
          value |-> Len(SelectSeq(parse.defs, LAMBDA has_doc : ~has_doc))]

\* lines 118-127: what run_pyflakes_on_code returns once the tool was started.
\* exit is "zero" (check_output returned), "nonzero" (CalledProcessError) or
\* "error" (any other exception); output is the text the tool printed.
\* a plausible slip: a nonzero exit is taken for a failed run
PyflakesResult_NonzeroIsFailure(exit, output) ==
    IF exit = "zero" THEN SplitLines(output) ELSE <<>>

PyflakesResult(exit, output) ==
    CASE exit = "zero" -> SplitLines(output)
      [] exit = "nonzero" -> IF output # <<>> THEN SplitLines(output) ELSE <<>>
      [] OTHER -> <<>>

\* a plausible slip: the extension is looked for anywhere in the name
IsPython_AnyPosition(fname) == fname # <<>> /\ Contains(fname, <<".", "p", "y">>)

\* line 175: fname and fname.endswith(".py")
IsPython(fname) == fname # <<>> /\ EndsWith(fname, <<".", "p", "y">>)

\* a plausible slip: the score is not clamped at zero
FinalScore_Unclamped(total_score, penalty) == total_score - penalty

\* line 235
FinalScore(total_score, penalty) == Max(total_score - penalty, 0)

(***************************************************************************)
(* The files analyze_pr is run on. Each carries, next to the filename and  *)
(* the patch the program reads, what the libraries outside the repository  *)
(* do on its added code: radon's cc_visit, ast.parse and the walk over its *)
(* tree, and the text pyflakes prints.                                     *)
(***************************************************************************)
Block(n, c) == [name |-> n, complexity |-> c]
Repeat(s, n) == [i \in 1..(n * Len(s)) |-> s[((i - 1) % Len(s)) + 1]]
NoLibs == [cc_visit |-> [raised |-> FALSE, blocks |-> <<>>],
           ast_parse |-> [raised |-> FALSE, defs |-> <<>>],
           pyflakes_out |-> <<>>]

SampleFiles ==
    << \* 1: a Python file with every kind of finding, each past its cap
       [filename |-> <<"a", ".", "p", "y">>,
        patch |-> <<"+", "#", " ", "T", "O", "D", "O", " ", "a", "\n", "-", "#", " ", "F", "I", "X", "M", "E", " ", "b", "\n", "+", "#", " ", "T", "O", "D", "O", " ", "c", "\n", "+", "p", "r", "i", "n", "t", " ", "(", "x", ")", " ", "#", " ", "T", "O", "D", "O", "\n", "+", "#", " ", "F", "I", "X", "M", "E", " ", "e">>,
        cc_visit |-> [raised |-> FALSE,
                      blocks |-> <<Block("f", 7), Block("g", 8)>>],
        ast_parse |-> [raised |-> FALSE,
                       defs |-> <<FALSE, FALSE, FALSE, FALSE, FALSE, FALSE,
                                  TRUE>>],
        pyflakes_out |-> Repeat(<<"w", "\n">>, 12)],
       \* 2: a Python fragment that does not parse
       [filename |-> <<"b", ".", "p", "y">>,
        patch |-> <<"@", "@", " ", "-", "1", " ", "+", "1", " ", "@", "@", "\n", "+", "d", "e", "f", " ", "f", "(", ":", "\n", "+", " ", " ", "p", "r", "i", "n", "t", "(", "1", ")", " ", " ", "#", " ", "T", "O", "D", "O">>,
        cc_visit |-> [raised |-> TRUE, blocks |-> <<>>],
        ast_parse |-> [raised |-> TRUE, defs |-> <<>>],
        pyflakes_out |-> <<"e", "\n", "s", "\n", "^", "\n">>],
       \* 3: a Python file with nothing to report
       [filename |-> <<"c", ".", "p", "y">>,
        patch |-> <<" ", "c", "t", "x", "\n", "+", "s", "p", "r", "i", "n", "t", "(", "x", ")">>,
        cc_visit |-> [raised |-> FALSE, blocks |-> <<>>],
        ast_parse |-> [raised |-> FALSE, defs |-> <<>>],
        pyflakes_out |-> <<>>],
       \* 4: the complexity visitor fails, the docstring walk does not
       [filename |-> <<"d", ".", "p", "y">>,
        patch |-> <<"+", "c", "l", "a", "s", "s", " ", "C", ":", "\n", "-", "x">>,
        cc_visit |-> [raised |-> TRUE, blocks |-> <<>>],
        ast_parse |-> [raised |-> FALSE, defs |-> <<FALSE, TRUE, FALSE>>],
        pyflakes_out |-> <<>>],
       \* 5: the docstring parse fails, the complexity visitor does not
       [filename |-> <<"e", ".", "p", "y">>,
        patch |-> <<"+", "d", "e", "f", " ", "g", "(", ")", ":", " ", "p", "a", "s", "s">>,
        cc_visit |-> [raised |-> FALSE, blocks |-> <<Block("g", 6)>>],
        ast_parse |-> [raised |-> TRUE, defs |-> <<>>],
        pyflakes_out |-> <<"w", "\n">>],
       \* 6: a text file naming two secrets
       [filename |-> <<"n", ".", "t", "x", "t">>,
        patch |-> <<"+", "A", "P", "I", "_", "K", "E", "Y", "=", "1", "\n", "-", "S", "E", "C", "R", "E", "T", "\n", "+", "T", "O", "K", "E", "N", " ", "#", " ", "T", "O", "D", "O">>] @@ NoLibs,
       \* 7: a text file with 2001 added characters
       [filename |-> <<"b", "i", "g", ".", "m", "d">>,
        patch |-> <<"+">> \o Repeat(<<"x">>, LARGE_ADDITION_CHARS + 1)] @@ NoLibs,
       \* 8: not a Python file, though ".py" occurs in its name
       [filename |-> <<"x", ".", "p", "y", "i">>,
        patch |-> <<"+", "p", "r", "i", "n", "t", "(", "1", ")">>,
        cc_visit |-> [raised |-> FALSE, blocks |-> <<Block("h", 12)>>],
        ast_parse |-> [raised |-> FALSE, defs |-> <<FALSE>>],
        pyflakes_out |-> <<"w", "\n">>] >>

\* pr_data["files"]: pr_data holds, for each file, its place in SampleFiles
File(i) == SampleFiles[pr_data[i]]
\* the file the loop of analyze_pr is at, and its added code (line 163)
f == File(idx)
added == extract_added_code(f.patch)

Issue(t, d) == [type |-> t, detail |-> d]
IssueTypesOf(res) == [k \in 1..Len(res.issues) |-> res.issues[k].type]

NoObs == [ran |-> <<>>, tool |-> "unused", exit |-> "none"]

AnalyzeIdle ==
    /\ pr_data = <<>> /\ idx = 0 /\ file_res = NoValue
    /\ results = [files |-> <<>>] /\ score_penalty = 0 /\ final_score = 0
    /\ pyflakes_msgs = <<>> /\ tmpfiles = {} /\ pc = "idle"
    /\ applied = <<>> /\ cur_obs = NoObs /\ obs = <<>>

\* lines 156-158
AnalyzeInit ==
    /\ pr_data \in SeqUpTo(DOMAIN SampleFiles, MaxFiles)
    /\ idx = 0
    /\ file_res = NoValue
    /\ results = [files |-> <<>>]
    /\ score_penalty = 0
    /\ final_score = 0
    /\ pyflakes_msgs = <<>>
    /\ tmpfiles = {}
    /\ pc = "loop"
    /\ applied = <<>> /\ cur_obs = NoObs /\ obs = <<>>

\* "score_penalty += apply_penalty(t, n)", with the history of what was added
Penalise(t, n) ==
    /\ score_penalty' = score_penalty + apply_penalty(t, n)
    /\ applied' = Append(applied, [file |-> idx, type |-> t,
                                   amount |-> apply_penalty(t, n)])
NoPenalty == UNCHANGED <<score_penalty, applied>>
Ran(check) == cur_obs' = [cur_obs EXCEPT !.ran = Append(@, check)]
AddIssue(t, d) ==
    file_res' = [file_res EXCEPT !.issues = Append(@, Issue(t, d))]

\* lines 160-164: the loop takes the next file
NextFile ==
    /\ pc = "loop" /\ idx < Len(pr_data)
    /\ idx' = idx + 1
    /\ file_res' = [filename |-> File(idx + 1).filename, issues |-> <<>>,
                    metrics |-> <<>>]
    /\ cur_obs' = NoObs
    /\ pc' = "todo"
    /\ UNCHANGED <<pr_data, results, score_penalty, final_score, pyflakes_msgs,
                   tmpfiles, applied, obs, penaltyVars, extractVars, parseVars>>

\* lines 166-175
CheckTodo ==
    /\ pc = "todo"
    /\ LET todos == count_todos(f.patch)
       IN  IF todos > 0
           THEN AddIssue("todo", <<todos>>) /\ Penalise("todo", todos)
           ELSE UNCHANGED file_res /\ NoPenalty
    /\ Ran("todo")
    /\ pc' = IF IsPython(file_res.filename) THEN "complexity" ELSE "large"
    /\ UNCHANGED <<pr_data, idx, results, final_score, pyflakes_msgs, tmpfiles,
                   obs, penaltyVars, extractVars, parseVars>>

\* lines 176-186; an exception that python_complexity_from_code lets through
\* leaves analyze_pr
CheckComplexity ==
    /\ pc = "complexity"
    /\ LET cc == python_complexity_from_code(f.cc_visit)
       IN  CASE cc.kind = "raise" ->
                  /\ pc' = "raised"
                  /\ UNCHANGED file_res /\ NoPenalty
             [] cc.kind = "none" ->
                  /\ pc' = "docstring"
                  /\ UNCHANGED file_res /\ NoPenalty
             [] OTHER ->
                  /\ pc' = "docstring"
                  /\ IF cc.avg_sum > AVG_COMPLEXITY_LIMIT * cc.avg_len
                     THEN /\ file_res' =
                                [file_res EXCEPT
                                   !.metrics = ("cyclomatic" :> cc) @@ @,
                                   !.issues = Append(@, Issue("complexity",
                                       <<cc.avg_sum, cc.avg_len,
                                         cc.high_count>>))]
                          /\ Penalise("complexity", cc.avg_sum \div cc.avg_len)
                     ELSE /\ file_res' =
                                [file_res EXCEPT
                                   !.metrics = ("cyclomatic" :> cc) @@ @]
                          /\ NoPenalty
    /\ Ran("complexity")
    /\ UNCHANGED <<pr_data, idx, results, final_score, pyflakes_msgs, tmpfiles,
                   obs, penaltyVars, extractVars, parseVars>>

\* lines 188-196; an exception that missing_docstrings lets through leaves
\* analyze_pr
CheckDocstring ==
    /\ pc = "docstring"
    /\ LET missing == missing_docstrings(f.ast_parse)
       IN  CASE missing.kind = "raise" ->
                  /\ pc' = "raised"
                  /\ UNCHANGED file_res /\ NoPenalty
             [] missing.kind = "int" /\ missing.value > 0 ->
                  /\ pc' = "print"
                  /\ AddIssue("docstring", <<missing.value>>)
                  /\ Penalise("docstring", missing.value)
             [] OTHER ->
                  /\ pc' = "print"
                  /\ UNCHANGED file_res /\ NoPenalty
    /\ Ran("docstring")
    /\ UNCHANGED <<pr_data, idx, results, final_score, pyflakes_msgs, tmpfiles,
                   obs, penaltyVars, extractVars, parseVars>>

\* lines 198-205
CheckPrint ==
    /\ pc = "print"
    /\ IF uses_print_for_logging(added)
       THEN AddIssue("print", <<>>) /\ Penalise("print", 1)
       ELSE UNCHANGED file_res /\ NoPenalty
    /\ Ran("print")
    /\ pc' = "pyflakes"
    /\ UNCHANGED <<pr_data, idx, results, final_score, pyflakes_msgs, tmpfiles,
                   obs, penaltyVars, extractVars, parseVars>>

\* lines 111-116 of run_pyflakes_on_code: without the tool the call returns
\* []; with it, the fragment is written to a temporary file that is not
\* deleted on close (delete=False)
PyflakesStart ==
    /\ pc = "pyflakes"
    /\ \E found \in BOOLEAN :
          IF found
          THEN /\ tmpfiles' = tmpfiles \cup {Cardinality(tmpfiles) + 1}
               /\ cur_obs' = [cur_obs EXCEPT !.tool = "found"]
               /\ pc' = "pyflakes_run"
               /\ UNCHANGED pyflakes_msgs
          ELSE /\ pyflakes_msgs' = <<>>
               /\ cur_obs' = [cur_obs EXCEPT !.tool = "missing"]
               /\ pc' = "pyflakes_report"
               /\ UNCHANGED tmpfiles
    /\ UNCHANGED <<pr_data, idx, file_res, results, score_penalty, final_score,
                   applied, obs, penaltyVars, extractVars, parseVars>>

\* lines 118-127: the tool runs on the temporary file and the call returns;
\* nothing on these lines removes the file
PyflakesRun ==
    /\ pc = "pyflakes_run"
    /\ \E exit \in {"zero", "nonzero", "error"} :
          /\ pyflakes_msgs' =
                PyflakesResult(exit, IF exit = "error" THEN <<>>
                                     ELSE f.pyflakes_out)
          /\ cur_obs' = [cur_obs EXCEPT !.exit = exit]
    /\ pc' = "pyflakes_report"
    /\ UNCHANGED <<pr_data, idx, file_res, results, score_penalty, final_score,
                   tmpfiles, applied, obs, penaltyVars, extractVars, parseVars>>

\* lines 207-213
PyflakesReport ==
    /\ pc = "pyflakes_report"
    /\ IF pyflakes_msgs # <<>>
       THEN /\ file_res' =
                  [file_res EXCEPT
                     !.issues = Append(@, Issue("pyflakes",
                                                <<Len(pyflakes_msgs)>>)),
                     !.metrics = ("pyflakes_messages" :> pyflakes_msgs) @@ @]
            /\ Penalise("pyflakes", Len(pyflakes_msgs))
       ELSE UNCHANGED file_res /\ NoPenalty
    /\ Ran("pyflakes")
    /\ pc' = "append"
    /\ UNCHANGED <<pr_data, idx, results, final_score, pyflakes_msgs, tmpfiles,
                   obs, penaltyVars, extractVars, parseVars>>

\* lines 217-224
CheckLargeAddition ==
    /\ pc = "large"
    /\ IF Len(added) > LARGE_ADDITION_CHARS
       THEN AddIssue("large_addition", <<>>) /\ Penalise("large_addition", 1)
       ELSE UNCHANGED file_res /\ NoPenalty
    /\ Ran("large_addition")
    /\ pc' = "secret"
    /\ UNCHANGED <<pr_data, idx, results, final_score, pyflakes_msgs, tmpfiles,
                   obs, penaltyVars, extractVars, parseVars>>

\* lines 226-231
CheckSecret ==
    /\ pc = "secret"
    /\ LET secrets_found == detect_secrets(added)
       IN  IF secrets_found # <<>>
           THEN AddIssue("secret", secrets_found) /\ Penalise("secret", 1)
           ELSE UNCHANGED file_res /\ NoPenalty
    /\ Ran("secret")
    /\ pc' = "append"
    /\ UNCHANGED <<pr_data, idx, results, final_score, pyflakes_msgs, tmpfiles,
                   obs, penaltyVars, extractVars, parseVars>>

\* a plausible slip: a file without issues is left out of the report
AppendFile_OnlyWithIssues ==
    /\ pc = "append"
    /\ results' = IF file_res.issues # <<>>
                  THEN [results EXCEPT !.files = Append(@, file_res)]
                  ELSE results
    /\ obs' = Append(obs, cur_obs)
    /\ pc' = "loop"
    /\ UNCHANGED <<pr_data, idx, file_res, score_penalty, final_score,
                   pyflakes_msgs, tmpfiles, applied, cur_obs, penaltyVars,
                   extractVars, parseVars>>

\* line 233
AppendFile ==
    /\ pc = "append"
    /\ results' = [results EXCEPT !.files = Append(@, file_res)]
    /\ obs' = Append(obs, cur_obs)
    /\ pc' = "loop"
    /\ UNCHANGED <<pr_data, idx, file_res, score_penalty, final_score,
                   pyflakes_msgs, tmpfiles, applied, cur_obs, penaltyVars,
                   extractVars, parseVars>>

\* lines 235-238
Finish ==
    /\ pc = "loop" /\ idx = Len(pr_data)
    /\ final_score' = FinalScore(TOTAL_SCORE, score_penalty)
    /\ results' = ("final_score" :> final_score')
                  @@ ("penalty" :> score_penalty) @@ results
    /\ pc' = "done"
    /\ UNCHANGED <<pr_data, idx, file_res, score_penalty, pyflakes_msgs,
                   tmpfiles, applied, cur_obs, obs, penaltyVars, extractVars,
                   parseVars>>

(***************************************************************************)
(* The specifications.                                                     *)
(***************************************************************************)
PenaltyNext == ApplyPenalty
ExtractNext == ExtractAddedCode
ParseNext ==
    ParseBegin \/ ParseMarker \/ ParseCollect \/ ParseSkip \/ ParseFinish
AnalyzeNext ==
    \/ NextFile \/ CheckTodo \/ CheckComplexity \/ CheckDocstring
    \/ CheckPrint \/ PyflakesStart \/ PyflakesRun \/ PyflakesReport
    \/ CheckLargeAddition \/ CheckSecret \/ AppendFile \/ Finish

PenaltyStart == PenaltyInit /\ ExtractIdle /\ ParseIdle /\ AnalyzeIdle
ExtractStart == ExtractInit /\ PenaltyIdle /\ ParseIdle /\ AnalyzeIdle
ParseStart == ParseInit /\ PenaltyIdle /\ ExtractIdle /\ AnalyzeIdle
Init == AnalyzeInit /\ PenaltyIdle /\ ExtractIdle /\ ParseIdle
Next == AnalyzeNext

SpecPenalty == PenaltyStart /\ [][PenaltyNext]_vars
SpecExtract == ExtractStart /\ [][ExtractNext]_vars
SpecParse == ParseStart /\ [][ParseNext]_vars
\* analyze_pr
Spec == Init /\ [][Next]_vars

(***************************************************************************)
(* What the claims speak of.                                               *)
(***************************************************************************)
\* the elements of a set of numbers, in increasing order
Ascending(S) ==
    [k \in 1..Cardinality(S) |->
        CHOOSE e \in S : Cardinality({j \in S : j <= e}) = k]

\* the table of weights and caps of the specification, section 4.4
ClaimedWeight ==
    [todo |-> 5, complexity |-> 2, docstring |-> 1, print |-> 3,
     pyflakes |-> 1, secret |-> 25, large_addition |-> 5]
ClaimedCap ==
    [todo |-> 20, complexity |-> 20, docstring |-> 5, print |-> 3,
     pyflakes |-> 10, secret |-> 25, large_addition |-> 5]
ClaimedPenalty(t, n) ==
    IF ClaimedWeight[t] * n <= ClaimedCap[t] THEN ClaimedWeight[t] * n
    ELSE ClaimedCap[t]

\* the occurrence count an issue of the report stands for
OccurrencesOf(issue) ==
    CASE issue.type \in {"todo", "docstring", "pyflakes"} -> issue.detail[1]
      [] issue.type = "complexity" -> issue.detail[1] \div issue.detail[2]
      [] OTHER -> 1

\* the penalty the issues of the report add up to
ReportedPenalty ==
    SumSeq([k \in 1..Len(results.files) |->
        SumSeq([j \in 1..Len(results.files[k].issues) |->
            ClaimedPenalty(results.files[k].issues[j].type,
                           OccurrencesOf(results.files[k].issues[j]))])])

AppliedTotal == SumSeq([k \in 1..Len(applied) |-> applied[k].amount])

\* what file k was penalised for issues of type t
PenaltyOf(k, t) ==
    LET hits == SelectSeq(applied, LAMBDA a : a.file = k /\ a.type = t)
    IN  SumSeq([j \in 1..Len(hits) |-> hits[j].amount])

TypesOf(k) == {results.files[k].issues[j].type :
                  j \in 1..Len(results.files[k].issues)}

\* C1: the report of analyze_pr has final_score = max(0, 100 - penalty), where
\* penalty is the sum of the per-file per-type penalties of the run; so the
\* score lies in 0..100, is 100 - penalty while penalty <= 100 and 0 beyond.
C1_FinalScoreIsClampedComplement ==
    pc = "done" =>
        /\ results.penalty = AppliedTotal
        /\ results.penalty = ReportedPenalty
        /\ results.final_score >= 0 /\ results.final_score <= 100
        /\ (results.penalty <= 100 =>
               results.final_score = 100 - results.penalty)
        /\ (results.penalty > 100 => results.final_score = 0)

\* C1 happens: a run whose penalties pass 100 ends with score 0
C1_Witness ==
    pc = "done" /\ results.penalty > 100 /\ results.final_score = 0

\* C2: for each of the seven issue types and every count n >= 0,
\* apply_penalty(type, n) = min(weight * n, cap) with the weights and caps of
\* the specification's table, and so never more than the cap.
C2_PenaltyIsCappedProduct ==
    (ap_pc = "done" /\ ap_type \in IssueTypes) =>
        /\ ap_result = ClaimedPenalty(ap_type, ap_count)
        /\ ap_result <= ClaimedCap[ap_type]

\* C2 happens: a count whose product passes the cap was penalised
C2_Witness ==
    /\ ap_pc = "done" /\ ap_type = "pyflakes" /\ ap_count = 12
    /\ ap_result = 10

\* C3: the report lists every input file once, in input order and under its
\* filename, the files without issues too; no input file gives an empty
\* list, penalty 0 and score 100.
C3_OneEntryPerInputFile ==
    /\ Len(results.files) <= Len(pr_data)
    /\ \A k \in 1..Len(results.files) :
          results.files[k].filename = File(k).filename
    /\ pc = "done" =>
          /\ Len(results.files) = Len(pr_data)
          /\ (pr_data = <<>> =>
                 /\ results.files = <<>>
                 /\ results.penalty = 0
                 /\ results.final_score = 100)

\* C3 happens: a finished report of two files, one of them without issues
C3_Witness ==
    /\ pc = "done" /\ Len(results.files) = 2
    /\ results.files[1].issues = <<>>
    /\ results.files[2].issues # <<>>

\* ---- parse_local_diff
PathOf(line) == SubSeq(line, Len(<<"+", "+", "+", " ", "b", "/">>) + 1, Len(line))
MarkerLines ==
    {p \in 1..Len(lines) :
        /\ Len(lines[p]) >= 6
        /\ SubSeq(lines[p], 1, 6) = <<"+", "+", "+", " ", "b", "/">>}
NamedMarkerLines == {p \in MarkerLines : Strip(PathOf(lines[p])) # <<>>}
NamesAt(ps) == [k \in 1..Len(ps) |-> Strip(PathOf(lines[ps[k]]))]
FileNames == [k \in 1..Len(files) |-> files[k].filename]
\* the last line of the section the marker at line p opens
SectionEnd(p) ==
    IF \E q \in MarkerLines : q > p
    THEN (CHOOSE q \in MarkerLines :
              q > p /\ \A r \in MarkerLines : r > p => q <= r) - 1
    ELSE Len(lines)

\* C4 as stated: parse_local_diff emits one FileChange per line that begins
\* with '+++ b/', in order and named by the path after the marker; the last
\* open section is flushed whatever it is.
C4_OneFilePerMarkerLine ==
    ppc = "done" =>
        /\ Len(files) = Cardinality(MarkerLines)
        /\ FileNames = NamesAt(Ascending(MarkerLines))

\* C4 as amended: parse_local_diff emits one FileChange per line that begins
\* with '+++ b/' and has a path that is not blank, in order and named by that
\* path without its surrounding whitespace; each marker flushes the named
\* section before it and the end of input flushes the last named section; a
\* diff without such a line gives no file.
C4_OneFilePerNamedMarkerLine ==
    /\ ppc = "scan" =>
          FileNames \o (IF collecting /\ filename # <<>> THEN <<filename>>
                        ELSE <<>>)
            = NamesAt(Ascending({p \in NamedMarkerLines : p < pos}))
    /\ ppc = "done" =>
          /\ FileNames = NamesAt(Ascending(NamedMarkerLines))
          /\ (MarkerLines = {} => files = <<>>)

\* C4 happens: two named sections, the last one with a body flushed at the end
C4_Witness ==
    /\ ppc = "done" /\ Len(files) = 2
    /\ files[2].patch # <<>>
    /\ files[1].filename # files[2].filename

\* C5: extract_added_code returns, joined by newlines and in order, every
\* line that starts with '+', without that '+', leaving out only the '+++'
\* file-header lines; any other '+' line appears, whatever follows its '+'.
C5_ExtractKeepsEveryAddedLine ==
    ex_pc = "done" =>
        LET plus == SelectSeq(ex_src, LAMBDA l :
                        l.text # <<>> /\ l.text[1] = "+" /\ l.kind # "header")
        IN  ex_result =
                Join([k \in 1..Len(plus) |->
                         SubSeq(plus[k].text, 2, Len(plus[k].text))])

\* C6: the issue types of a file are a subsequence of todo, complexity,
\* docstring, print, pyflakes when its name ends in '.py', and of todo followed
\* by the generic checks large_addition, secret otherwise.
PythonOrder == <<"todo", "complexity", "docstring", "print", "pyflakes">>
GenericOrder == <<"todo", "large_addition", "secret">>
PlaceIn(order, t) == CHOOSE i \in 1..Len(order) : order[i] = t
IsSubsequenceOf(types, order) ==
    /\ \A j \in 1..Len(types) : \E i \in 1..Len(order) : order[i] = types[j]
    /\ \A i, j \in 1..Len(types) :
          i < j => PlaceIn(order, types[i]) < PlaceIn(order, types[j])
NameEndsInPy(name) ==
    /\ Len(name) >= 3
    /\ name[Len(name) - 2] = "." /\ name[Len(name) - 1] = "p"
    /\ name[Len(name)] = "y"
OrderFor(name) == IF NameEndsInPy(name) THEN PythonOrder ELSE GenericOrder
C6_IssueOrderFollowsLanguage ==
    /\ \A k \in 1..Len(results.files) :
          IsSubsequenceOf(IssueTypesOf(results.files[k]),
                          OrderFor(results.files[k].filename))
    /\ pc \notin {"idle", "loop", "done", "raised"} /\ idx >= 1 =>
          IsSubsequenceOf(IssueTypesOf(file_res), OrderFor(file_res.filename))

\* C6 happens: a Python file with all five of its issues, then a text file
\* with a todo and a secret
C6_Witness ==
    /\ pc = "done" /\ Len(results.files) = 2
    /\ IssueTypesOf(results.files[1]) = PythonOrder
    /\ IssueTypesOf(results.files[2]) = <<"todo", "secret">>

\* C7: the temporary file run_pyflakes_on_code creates is deleted on every
\* exit path, so outside the call no temporary file of it is on disk.
C7_NoTemporaryFileRemains ==
    pc # "pyflakes_run" => tmpfiles = {}

\* C8: for every FileChange of parse_local_diff, additions is the number of
\* added lines of its section and deletions the number of removed lines;
\* header, hunk and context lines count for neither.
C8_CountsAreAddedAndRemovedLines ==
    (ppc = "done" /\ Len(files) = Cardinality(NamedMarkerLines)) =>
        \A k \in 1..Len(files) :
            LET p == Ascending(NamedMarkerLines)[k]
                body == (p + 1)..SectionEnd(p)
            IN  /\ files[k].additions =
                      Cardinality({q \in body : diff_src[q].kind = "added"})
                /\ files[k].deletions =
                      Cardinality({q \in body : diff_src[q].kind = "removed"})

\* ---- what each check of analyze_pr reports when nothing else interferes
ReportsTodo(k) ==
    "todo" \in TypesOf(k) <=> count_todos(File(k).patch) > 0
ReportsComplexity(k) ==
    LET v == File(k).cc_visit
        total == SumSeq([j \in 1..Len(v.blocks) |-> v.blocks[j].complexity])
    IN  "complexity" \in TypesOf(k)
            <=> (~v.raised /\ v.blocks # <<>> /\ total > 6 * Len(v.blocks))
ReportsDocstring(k) ==
    LET a == File(k).ast_parse
    IN  "docstring" \in TypesOf(k)
            <=> (~a.raised /\ \E j \in 1..Len(a.defs) : ~a.defs[j])
ReportsPrint(k) ==
    "print" \in TypesOf(k)
        <=> uses_print_for_logging(extract_added_code(File(k).patch))
ReportsPyflakes(k) ==
    "pyflakes" \in TypesOf(k)
        <=> (/\ obs[k].tool = "found"
             /\ obs[k].exit \in {"zero", "nonzero"}
             /\ File(k).pyflakes_out # <<>>)

\* C9: when the added code of a '.py' file fails to parse for the complexity
\* or the docstring check, that check adds no issue and no penalty and no
\* error leaves analyze_pr; the other checks of the file run and report as
\* they would otherwise, and the remaining files are analysed.
C9_UnparseableFragmentSkipsOnlyThatCheck ==
    /\ pc # "raised"
    /\ pc = "done" => Len(results.files) = Len(pr_data)
    /\ \A k \in 1..Len(results.files) :
          NameEndsInPy(File(k).filename) =>
            /\ File(k).cc_visit.raised =>
                  /\ "complexity" \notin TypesOf(k)
                  /\ PenaltyOf(k, "complexity") = 0
                  /\ "cyclomatic" \notin DOMAIN results.files[k].metrics
                  /\ obs[k].ran = PythonOrder
                  /\ ReportsTodo(k) /\ ReportsDocstring(k)
                  /\ ReportsPrint(k) /\ ReportsPyflakes(k)
            /\ File(k).ast_parse.raised =>
                  /\ "docstring" \notin TypesOf(k)
                  /\ PenaltyOf(k, "docstring") = 0
                  /\ obs[k].ran = PythonOrder
                  /\ ReportsTodo(k) /\ ReportsComplexity(k)
                  /\ ReportsPrint(k) /\ ReportsPyflakes(k)

\* C9 happens: the complexity visitor failed on the first file, its docstring
\* check still reported, and the second file was analysed
C9_Witness ==
    /\ pc = "done" /\ Len(results.files) = 2
    /\ File(1).cc_visit.raised /\ ~File(1).ast_parse.raised
    /\ "docstring" \in TypesOf(1)
    /\ File(2).ast_parse.raised /\ "cyclomatic" \in DOMAIN results.files[2].metrics

\* C10: without the lint tool the file gets no pyflakes issue and no penalty;
\* when the tool exits nonzero with output, the output lines are the findings
\* as for a zero exit: one pyflakes issue with their count, the lines in
\* metrics, and min(count, 10) added to the penalty.
C10_LintDegradesWithoutFailing ==
    \A k \in 1..Len(results.files) :
        NameEndsInPy(File(k).filename) =>
          LET fr == results.files[k]
              out == File(k).pyflakes_out
              findings == SplitLines(out)
              lint == SelectSeq(fr.issues, LAMBDA i : i.type = "pyflakes")
          IN  /\ obs[k].tool = "missing" =>
                    /\ lint = <<>>
                    /\ PenaltyOf(k, "pyflakes") = 0
                    /\ "pyflakes_messages" \notin DOMAIN fr.metrics
              /\ (/\ obs[k].tool = "found"
                  /\ obs[k].exit \in {"zero", "nonzero"}
                  /\ out # <<>>) =>
                    /\ Len(lint) = 1
                    /\ lint[1].detail = <<Len(findings)>>
                    /\ "pyflakes_messages" \in DOMAIN fr.metrics
                    /\ fr.metrics["pyflakes_messages"] = findings
                    /\ PenaltyOf(k, "pyflakes") =
                          (IF Len(findings) <= 10 THEN Len(findings) ELSE 10)

\* C10 happens: the tool was missing for one file, and exited nonzero with
\* twelve lines of output for another
C10_Witness ==
    /\ pc = "done" /\ Len(results.files) = 2
    /\ obs[1].tool = "missing"
    /\ obs[2].exit = "nonzero"
    /\ Len(File(2).pyflakes_out) > 0
    /\ PenaltyOf(2, "pyflakes") = 10

====
